---- MODULE Spec2Model ----
(***************************************************************************)
(* Model of magic-chess-backend/app.py: the two frequency models built at  *)
(* start-up from the match tables, the prediction engine, and the two      *)
(* prediction routes.                                                      *)
(*                                                                         *)
(* A Python string is a sequence of lexemes ("M.", "Player", "3"), so that *)
(* the substring test 'M.Player' in s and s.replace('M.', '') are computed *)
(* on the text and not looked up.  A Counter is the sequence of its        *)
(* <<element, count>> items in insertion order; a dict is a function whose *)
(* DOMAIN is its key set.  A probability is an integer number of tenths of *)
(* a percent (333 is 33.3).                                                *)
(***************************************************************************)
EXTENDS Integers, Sequences, FiniteSets, TLC

VARIABLES matches, transition_model, position_model, all_players, pc, request, response

vars == <<matches, transition_model, position_model, all_players, pc, request, response>>

\* ---------------------------------------------------------------- bounds
MaxCells == 3
MaxMatches == 2
MaxHistory == 2
MaxRoster == 5

\* number of players in the roster, app.py line 153
NumPlayers == 8
\* most_common(3), app.py line 122
TopN == 3
\* weight of a transition count, app.py line 105
TransitionWeight == 2

\* ---------------------------------------------------------------- strings
Creep == <<"Creep">>
Null == <<"Null">>
\* f'Player {i}'
PlayerName(i) == <<"Player", ToString(i)>>
\* a mirror-match cell, 'M.Player {i}'
MirrorName(i) == <<"M.">> \o PlayerName(i)
\* JSON null / Python None, and the empty string
None == <<"None">>
EmptyStr == <<>>

\* 'M.Player' in str(s)
HasMirrorMarker(s) == \E i \in 1..(Len(s) - 1) : s[i] = "M." /\ s[i + 1] = "Player"
IsNotMarker(x) == x # "M."
\* s.replace('M.', '')
StripMarker(s) == SelectSeq(s, IsNotMarker)
\* s in ['Creep', 'Null']
IsSentinel(s) == s \in {Creep, Null}

\* ---------------------------------------------------------------- Counter
RECURSIVE CounterIndex(_, _, _)
\* position of elem among the items of counter from index i on, 0 when absent
CounterIndex(counter, elem, i) ==
    IF i > Len(counter) THEN 0
    ELSE IF counter[i][1] = elem THEN i
    ELSE CounterIndex(counter, elem, i + 1)

\* counter[elem] += n   (a missing element starts at 0 and is appended)
CounterAdd(counter, elem, n) ==
    LET i == CounterIndex(counter, elem, 1) IN
    IF i = 0 THEN Append(counter, <<elem, n>>)
    ELSE [counter EXCEPT ![i] = <<elem, counter[i][2] + n>>]

\* counter[elem] = n
CounterSet(counter, elem, n) ==
    LET i == CounterIndex(counter, elem, 1) IN
    IF i = 0 THEN Append(counter, <<elem, n>>)
    ELSE [counter EXCEPT ![i] = <<elem, n>>]

\* counter[elem], 0 when absent
CounterGet(counter, elem) ==
    LET i == CounterIndex(counter, elem, 1) IN
    IF i = 0 THEN 0 ELSE counter[i][2]

CounterKeys(counter) == {counter[i][1] : i \in 1..Len(counter)}

EmptyModel == <<>>

\* model[key][elem] += 1 on a defaultdict of Counters
ModelIncrement(model, key, elem) ==
    IF key \in DOMAIN model
    THEN [model EXCEPT ![key] = CounterAdd(@, elem, 1)]
    ELSE (key :> <<<<elem, 1>>>>) @@ model

\* ---------------------------------------------------------------- builders
\* A match table is the sequence of its player columns (match_df.columns[1:]),
\* each [name |-> header, cells |-> the opponents faced, round by round].

\* TransitionStep without the `continue` of line 55-56: a mirror-match round
\* is taken as the current opponent
TransitionStepKeepsMirror(model, player, opponents, round_idx) ==
    LET current_opponent == opponents[round_idx]
        next_opponent == opponents[round_idx + 1]
    IN  IF IsSentinel(current_opponent) \/ IsSentinel(next_opponent) THEN model
        ELSE ModelIncrement(model, <<player, current_opponent>>,
                            IF HasMirrorMarker(next_opponent)
                            THEN StripMarker(next_opponent) ELSE next_opponent)

\* TransitionStep without the replace of line 57-58: the next opponent is
\* recorded with its marker
TransitionStepNoStrip(model, player, opponents, round_idx) ==
    LET current_opponent == opponents[round_idx]
        next_opponent == opponents[round_idx + 1]
    IN  IF IsSentinel(current_opponent) \/ IsSentinel(next_opponent) THEN model
        ELSE IF HasMirrorMarker(current_opponent) THEN model
        ELSE ModelIncrement(model, <<player, current_opponent>>, next_opponent)

\* the body of the round loop of build_transition_model for one round_idx
\* (round_idx is 1-based here: opponents[round_idx] is Python's opponents[round_idx - 1])
TransitionStep(model, player, opponents, round_idx) ==
    LET current_opponent == opponents[round_idx]
        next_opponent == opponents[round_idx + 1]
    IN  IF IsSentinel(current_opponent) \/ IsSentinel(next_opponent) THEN model
        ELSE IF HasMirrorMarker(current_opponent) THEN model
        ELSE ModelIncrement(model, <<player, current_opponent>>,
                            IF HasMirrorMarker(next_opponent)
                            THEN StripMarker(next_opponent) ELSE next_opponent)

RECURSIVE TransitionRounds(_, _, _, _)
\* for round_idx in range(len(opponents) - 1)
TransitionRounds(model, player, opponents, round_idx) ==
    IF round_idx > Len(opponents) - 1 THEN model
    ELSE TransitionRounds(TransitionStep(model, player, opponents, round_idx),
                          player, opponents, round_idx + 1)

RECURSIVE TransitionColumns(_, _, _)
\* for player in players
TransitionColumns(model, match_df, c) ==
    IF c > Len(match_df) THEN model
    ELSE TransitionColumns(
             TransitionRounds(model, match_df[c].name, match_df[c].cells, 1),
             match_df, c + 1)

RECURSIVE TransitionMatches(_, _, _)
\* for match_df in matches
TransitionMatches(model, ms, m) ==
    IF m > Len(ms) THEN model
    ELSE TransitionMatches(TransitionColumns(model, ms[m], 1), ms, m + 1)

build_transition_model(ms) == TransitionMatches(EmptyModel, ms, 1)

\* PositionStep with a key that leaves the round out: (player, 0) for every round
PositionStepDropsRound(model, player, opponents, round_pos) ==
    LET opponent == opponents[round_pos + 1]
    IN  IF IsSentinel(opponent) THEN model
        ELSE ModelIncrement(model, <<player, 0>>,
                            IF HasMirrorMarker(opponent)
                            THEN StripMarker(opponent) ELSE opponent)

\* the body of the enumerate loop of build_position_model; round_pos is 0-based
PositionStep(model, player, opponents, round_pos) ==
    LET opponent == opponents[round_pos + 1]
    IN  IF IsSentinel(opponent) THEN model
        ELSE ModelIncrement(model, <<player, round_pos>>,
                            IF HasMirrorMarker(opponent)
                            THEN StripMarker(opponent) ELSE opponent)

RECURSIVE PositionRounds(_, _, _, _)
PositionRounds(model, player, opponents, round_pos) ==
    IF round_pos > Len(opponents) - 1 THEN model
    ELSE PositionRounds(PositionStep(model, player, opponents, round_pos),
                        player, opponents, round_pos + 1)

RECURSIVE PositionColumns(_, _, _)
PositionColumns(model, match_df, c) ==
    IF c > Len(match_df) THEN model
    ELSE PositionColumns(
             PositionRounds(model, match_df[c].name, match_df[c].cells, 0),
             match_df, c + 1)

RECURSIVE PositionMatches(_, _, _)
PositionMatches(model, ms, m) ==
    IF m > Len(ms) THEN model
    ELSE PositionMatches(PositionColumns(model, ms[m], 1), ms, m + 1)

build_position_model(ms) == PositionMatches(EmptyModel, ms, 1)

\* ---------------------------------------------------------------- engine
\* Lookup written `model[key].items()` with no membership test: the
\* defaultdict stores an empty Counter under a key it does not hold
LookupInserts(model, key) ==
    [model |-> IF key \in DOMAIN model THEN model ELSE (key :> <<>>) @@ model,
     items |-> IF key \in DOMAIN model THEN model[key] ELSE <<>>]

\* `if key in model: for opponent, count in model[key].items()`: the items read
\* and the dict as the read leaves it (a membership test adds no key to a
\* defaultdict)
Lookup(model, key) ==
    [model |-> model,
     items |-> IF key \in DOMAIN model THEN model[key] ELSE <<>>]

RECURSIVE AddTransitionScores(_, _, _)
\* scores[opponent] += count * 2 for the items from index i on
AddTransitionScores(scores, items, i) ==
    IF i > Len(items) THEN scores
    ELSE AddTransitionScores(
             CounterAdd(scores, items[i][1], items[i][2] * TransitionWeight),
             items, i + 1)

RECURSIVE AddPositionScores(_, _, _, _)
\* if opponent != player: scores[opponent] += count
AddPositionScores(scores, items, player, i) ==
    IF i > Len(items) THEN scores
    ELSE AddPositionScores(
             IF items[i][1] # player
             THEN CounterAdd(scores, items[i][1], items[i][2]) ELSE scores,
             items, player, i + 1)

RECURSIVE AddFallbackScoresKeepsPlayer(_, _, _, _)
\* the fallback loop without `if p != player`
AddFallbackScoresKeepsPlayer(scores, roster, player, i) ==
    IF i > Len(roster) THEN scores
    ELSE AddFallbackScoresKeepsPlayer(CounterSet(scores, roster[i], 1),
                                      roster, player, i + 1)

RECURSIVE AddFallbackScores(_, _, _, _)
\* for p in all_players: if p != player: scores[p] = 1
AddFallbackScores(scores, roster, player, i) ==
    IF i > Len(roster) THEN scores
    ELSE AddFallbackScores(
             IF roster[i] # player THEN CounterSet(scores, roster[i], 1) ELSE scores,
             roster, player, i + 1)

\* `if not scores:` then the fallback loop
Fallback(scores, roster, player) ==
    IF scores = <<>> THEN AddFallbackScores(scores, roster, player, 1) ELSE scores

RECURSIVE FirstMax(_, _, _)
\* index of the first item of counter, from i on, with the largest count (best so far: b)
FirstMax(counter, i, b) ==
    IF i > Len(counter) THEN b
    ELSE FirstMax(counter, i + 1, IF counter[i][2] > counter[b][2] THEN i ELSE b)

RECURSIVE most_commonUncut(_, _)
\* most_common() with no cut: every item, sorted
most_commonUncut(counter, n) ==
    IF counter = <<>> THEN <<>>
    ELSE LET i == FirstMax(counter, 1, 1) IN
         <<counter[i]>> \o
         most_commonUncut(SubSeq(counter, 1, i - 1)
                              \o SubSeq(counter, i + 1, Len(counter)), n)

RECURSIVE most_common(_, _)
\* Counter.most_common(n): sorted by count, largest first, equal counts in
\* insertion order, cut to n
most_common(counter, n) ==
    IF n = 0 \/ counter = <<>> THEN <<>>
    ELSE LET i == FirstMax(counter, 1, 1) IN
         <<counter[i]>> \o
         most_common(SubSeq(counter, 1, i - 1) \o SubSeq(counter, i + 1, Len(counter)),
                     n - 1)

RECURSIVE SumCounts(_, _)
\* sum([count for _, count in top_3])
SumCounts(items, i) ==
    IF i > Len(items) THEN 0 ELSE items[i][2] + SumCounts(items, i + 1)

\* round((count / total) * 100, 1) in tenths of a percent, ties to even; total > 0
Probability(count, total) ==
    LET q == (count * 1000) \div total
        r == (count * 1000) % total
    IN  IF 2 * r < total THEN q
        ELSE IF 2 * r > total THEN q + 1
        ELSE IF q % 2 = 0 THEN q ELSE q + 1

\* Predictions with the division hoisted out of the comprehension
\* (scale = 100 / total): it is evaluated, and raises, for an empty top_3 too
PredictionsEagerDivision(top_3, total) ==
    [raised |-> total = 0,
     predictions |->
        [i \in 1..Len(top_3) |->
            [opponent |-> top_3[i][1],
             probability |-> IF total = 0 THEN 0 ELSE Probability(top_3[i][2], total)]]]

\* the list comprehension of lines 126-132: the division is evaluated once per
\* item of top_3, and raises ZeroDivisionError when total is 0
Predictions(top_3, total) ==
    [raised |-> Len(top_3) > 0 /\ total = 0,
     predictions |->
        [i \in 1..Len(top_3) |->
            [opponent |-> top_3[i][1],
             probability |-> IF total = 0 THEN 0 ELSE Probability(top_3[i][2], total)]]]

\* the scores Counter before most_common
Scores(player, current_round_idx, last_opponent, tm, pm, roster) ==
    LET t == Lookup(tm, <<player, last_opponent>>)
        p == Lookup(pm, <<player, current_round_idx + 1>>)
    IN  Fallback(AddPositionScores(AddTransitionScores(<<>>, t.items, 1),
                                   p.items, player, 1),
                 roster, player)

\* the call's result, and the two models as the call leaves them
predict_next_opponent(player, current_round_idx, last_opponent, tm, pm, roster) ==
    LET t == Lookup(tm, <<player, last_opponent>>)
        p == Lookup(pm, <<player, current_round_idx + 1>>)
        scores == Scores(player, current_round_idx, last_opponent, tm, pm, roster)
        top_3 == most_common(scores, TopN)
        out == Predictions(top_3, SumCounts(top_3, 1))
    IN  [raised |-> out.raised,
         predictions |-> out.predictions,
         transition_model |-> t.model,
         position_model |-> p.model]

\* ---------------------------------------------------------------- round labels
RECURSIVE Split(_, _, _)
\* round_str.split('-'): acc is the part being read, i the next lexeme
Split(s, i, acc) ==
    IF i > Len(s) THEN <<acc>>
    ELSE IF s[i] = "-" THEN <<acc>> \o Split(s, i + 1, <<>>)
    ELSE Split(s, i + 1, Append(acc, s[i]))

\* the round numbers a label of the model can carry
MaxRoundNumber == 2
\* int(part) succeeds
IsInt(part) == Len(part) = 1 /\ \E n \in 0..MaxRoundNumber : part[1] = ToString(n)
\* int(part)
IntOf(part) == CHOOSE n \in 0..MaxRoundNumber : part[1] = ToString(n)

extract_round_number(round_str) ==
    LET parts == Split(round_str, 1, <<>>) IN
    IF Len(parts) = 2
    THEN IF IsInt(parts[2]) THEN IntOf(parts[2]) - 1 ELSE 0
    ELSE 0

\* ---------------------------------------------------------------- routes
\* data.get(field, default): Absent marks a field the JSON body does not carry
Absent == <<"absent">>
GetOr(value, default) == IF value = Absent THEN default ELSE value
\* data.get(field): None for a missing field
Get(value) == GetOr(value, None)
\* Python truthiness of a JSON string or null
Truthy(value) == value # None /\ value # EmptyStr

\* 'I-{n}'
RoundLabel(n) == <<"I", "-", ToString(n)>>
DefaultRound == RoundLabel(1)

NoRequest == [route |-> "none"]
NoResponse == [status |-> 0]

\* the body of predict(): the JSON response, and the models as the call leaves them
PredictResponse(data, tm, pm, roster) ==
    LET player == Get(data.player)
        current_round == GetOr(data.current_round, DefaultRound)
        last_opponent == Get(data.last_opponent)
        r == predict_next_opponent(player, extract_round_number(current_round),
                                   last_opponent, tm, pm, roster)
    IN  IF ~Truthy(player) \/ ~Truthy(last_opponent)
        THEN [json |-> [status |-> 400], transition_model |-> tm, position_model |-> pm]
        ELSE [json |-> IF r.raised THEN [status |-> 500]
                       ELSE [status |-> 200, player |-> player,
                             current_round |-> current_round,
                             last_opponent |-> last_opponent,
                             next_predictions |-> r.predictions],
              transition_model |-> r.transition_model,
              position_model |-> r.position_model]

RECURSIVE BatchLoopBreaks(_, _, _, _, _)
\* BatchLoop with `break` for `continue`: the loop ends at the first item
\* without an opponent
BatchLoopBreaks(player, history, i, acc, roster) ==
    IF i > Len(history) \/ acc.raised THEN acc
    ELSE LET round_str == GetOr(history[i].round, DefaultRound)
             opponent == Get(history[i].opponent)
             r == predict_next_opponent(player, extract_round_number(round_str),
                                        opponent, acc.transition_model,
                                        acc.position_model, roster)
         IN  IF ~Truthy(opponent) THEN acc
             ELSE BatchLoopBreaks(player, history, i + 1,
                      [raised |-> r.raised,
                       results |-> IF r.raised THEN acc.results
                                   ELSE Append(acc.results,
                                               [round |-> round_str,
                                                opponent |-> opponent,
                                                predictions |-> r.predictions]),
                       transition_model |-> r.transition_model,
                       position_model |-> r.position_model],
                      roster)

RECURSIVE BatchLoop(_, _, _, _, _)
\* `for item in history` from item i on: acc carries the results, whether a call
\* raised, and the models as the calls so far leave them
BatchLoop(player, history, i, acc, roster) ==
    IF i > Len(history) \/ acc.raised THEN acc
    ELSE LET round_str == GetOr(history[i].round, DefaultRound)
             opponent == Get(history[i].opponent)
             r == predict_next_opponent(player, extract_round_number(round_str),
                                        opponent, acc.transition_model,
                                        acc.position_model, roster)
         IN  BatchLoop(player, history, i + 1,
                 IF Truthy(opponent)
                 THEN [raised |-> r.raised,
                       results |-> IF r.raised THEN acc.results
                                   ELSE Append(acc.results,
                                               [round |-> round_str,
                                                opponent |-> opponent,
                                                predictions |-> r.predictions]),
                       transition_model |-> r.transition_model,
                       position_model |-> r.position_model]
                 ELSE acc,
                 roster)

\* the body of predict_batch()
BatchResponse(data, tm, pm, roster) ==
    LET player == Get(data.player)
        out == BatchLoop(player, data.history, 1,
                         [raised |-> FALSE, results |-> <<>>,
                          transition_model |-> tm, position_model |-> pm],
                         roster)
    IN  IF ~Truthy(player)
        THEN [json |-> [status |-> 400], transition_model |-> tm, position_model |-> pm]
        ELSE [json |-> IF out.raised THEN [status |-> 500]
                       ELSE [status |-> 200, player |-> player,
                             predictions_history |-> out.results],
              transition_model |-> out.transition_model,
              position_model |-> out.position_model]

\* ---------------------------------------------------------------- inputs
\* the opponent cells a match table of the model can hold: the warm-up sentinel
\* (lines 53 and 80 treat 'Null' exactly as 'Creep'), two plain opponents, the
\* mirror of the column's own player and the mirror of another player
Cells == {Creep, PlayerName(2), PlayerName(3), MirrorName(1), MirrorName(3)}

\* the tables with n opponent cells: the column of Player 1 over n rounds
Tables(n) == {<<[name |-> PlayerName(1), cells |-> c]>> : c \in [1..n -> Cells]}

RECURSIVE Corpus(_, _)
\* the sequences of k tables with at most `cells` opponent cells in all
Corpus(k, cells) ==
    IF k = 0 THEN {<<>>}
    ELSE UNION {{<<t>> \o rest : t \in Tables(n), rest \in Corpus(k - 1, cells - n)} :
                   n \in 1..cells}

Corpora == UNION {Corpus(k, MaxCells) : k \in 0..MaxMatches}

Labels == {RoundLabel(n) : n \in 1..MaxRoundNumber}
BadLabels == {<<"I", "-", "x">>, <<"garbage">>}

\* the JSON bodies POSTed to /api/predict
PredictRequests ==
    {[route |-> "predict", player |-> PlayerName(1), current_round |-> l,
      last_opponent |-> o] :
        l \in Labels, o \in {PlayerName(2), PlayerName(3), MirrorName(3)}}
    \cup {[route |-> "predict", player |-> PlayerName(1), current_round |-> l,
           last_opponent |-> PlayerName(2)] : l \in BadLabels \cup {Absent}}
    \cup {[route |-> "predict", player |-> PlayerName(2), current_round |-> RoundLabel(0),
           last_opponent |-> o] : o \in {PlayerName(2), PlayerName(3)}}
    \cup {[route |-> "predict", player |-> Absent, current_round |-> RoundLabel(1),
           last_opponent |-> PlayerName(2)],
          [route |-> "predict", player |-> PlayerName(1), current_round |-> RoundLabel(1),
           last_opponent |-> EmptyStr]}

\* the history items of a batch request
HistoryItems ==
    {[round |-> RoundLabel(1), opponent |-> PlayerName(2)],
     [round |-> RoundLabel(2), opponent |-> PlayerName(3)],
     [round |-> RoundLabel(2), opponent |-> None],
     [round |-> Absent, opponent |-> EmptyStr]}

\* the histories of at most MaxHistory items, no item twice
Histories ==
    UNION {{h \in [1..n -> HistoryItems] : \A i, j \in 1..n : h[i] = h[j] => i = j} :
              n \in 0..MaxHistory}

\* the JSON bodies POSTed to /api/predict-batch
BatchRequests ==
    {[route |-> "batch", player |-> PlayerName(1), history |-> h] : h \in Histories}
    \cup {[route |-> "batch", player |-> None, history |-> <<>>]}

\* all_players as lines 153 and 159 set it
Roster(n) == [i \in 1..n |-> PlayerName(i)]

\* ---------------------------------------------------------------- the program
\* matches holds the tables of the Match-*.csv files that exist
Init ==
    /\ matches \in Corpora
    /\ transition_model = EmptyModel
    /\ position_model = EmptyModel
    /\ all_players = <<>>
    /\ pc = "startup"
    /\ request = NoRequest
    /\ response = NoResponse

\* module start-up, lines 149-154
Startup ==
    /\ pc = "startup"
    /\ transition_model' = build_transition_model(matches)
    /\ position_model' = build_position_model(matches)
    /\ all_players' = Roster(NumPlayers)
    /\ pc' = "serving"
    /\ UNCHANGED <<matches, request, response>>

\* module start-up when loading raises (pd.read_csv on an unreadable file),
\* lines 155-159: no table is used
StartupError ==
    /\ pc = "startup"
    /\ matches' = <<>>
    /\ transition_model' = EmptyModel
    /\ position_model' = EmptyModel
    /\ all_players' = Roster(NumPlayers)
    /\ pc' = "serving"
    /\ UNCHANGED <<request, response>>

\* POST /api/predict
Predict(data) ==
    /\ pc = "serving"
    /\ response = NoResponse
    /\ LET out == PredictResponse(data, transition_model, position_model, all_players)
       IN  /\ response' = out.json
           /\ transition_model' = out.transition_model
           /\ position_model' = out.position_model
    /\ request' = data
    /\ UNCHANGED <<matches, all_players, pc>>

\* POST /api/predict-batch
PredictBatch(data) ==
    /\ pc = "serving"
    /\ response = NoResponse
    /\ LET out == BatchResponse(data, transition_model, position_model, all_players)
       IN  /\ response' = out.json
           /\ transition_model' = out.transition_model
           /\ position_model' = out.position_model
    /\ request' = data
    /\ UNCHANGED <<matches, all_players, pc>>

\* the response leaves the server; the next request can be taken
SendResponse ==
    /\ pc = "serving"
    /\ response # NoResponse
    /\ request' = NoRequest
    /\ response' = NoResponse
    /\ UNCHANGED <<matches, transition_model, position_model, all_players, pc>>

Next ==
    \/ Startup
    \/ StartupError
    \/ \E data \in PredictRequests : Predict(data)
    \/ \E data \in BatchRequests : PredictBatch(data)
    \/ SendResponse

Spec == Init /\ [][Next]_vars

\* The engine on its own: any roster, models built from any one-table corpus
EngineInit ==
    /\ matches \in UNION {Corpus(k, MaxCells) : k \in 0..1}
    /\ transition_model = build_transition_model(matches)
    /\ position_model = build_position_model(matches)
    /\ all_players \in {Roster(n) : n \in 0..MaxRoster}
    /\ pc = "serving"
    /\ request = NoRequest
    /\ response = NoResponse

EngineNext ==
    \/ \E data \in PredictRequests : Predict(data)
    \/ \E data \in BatchRequests : PredictBatch(data)
    \/ SendResponse

EngineSpec == EngineInit /\ [][EngineNext]_vars

\* ---------------------------------------------------------------- what the claims read
Min(a, b) == IF a < b THEN a ELSE b

\* the calls of predict_next_opponent behind the response in hand: its arguments
\* as the request gives them and the list it returned
Calls ==
    IF pc # "serving" \/ response = NoResponse \/ response.status # 200 THEN {}
    ELSE IF request.route = "predict"
    THEN {[player |-> response.player,
           idx |-> extract_round_number(response.current_round),
           last |-> response.last_opponent,
           predictions |-> response.next_predictions]}
    ELSE {[player |-> response.player,
           idx |-> extract_round_number(response.predictions_history[k].round),
           last |-> response.predictions_history[k].opponent,
           predictions |-> response.predictions_history[k].predictions] :
              k \in 1..Len(response.predictions_history)}

\* the Counter stored under a key, empty when the key is absent
ItemsAt(model, key) == IF key \in DOMAIN model THEN model[key] ELSE <<>>
TransitionItems(c) == ItemsAt(transition_model, <<c.player, c.last>>)
PositionItems(c) == ItemsAt(position_model, <<c.player, c.idx + 1>>)
\* the candidates the two strategies give a score
Scored(c) == CounterKeys(TransitionItems(c)) \cup (CounterKeys(PositionItems(c)) \ {c.player})
\* the fallback pool
Pool(c) == {all_players[i] : i \in 1..Len(all_players)} \ {c.player}
Opponents(c) == [i \in 1..Len(c.predictions) |-> c.predictions[i].opponent]
RECURSIVE SumProbabilities(_, _)
SumProbabilities(predictions, i) ==
    IF i > Len(predictions) THEN 0
    ELSE predictions[i].probability + SumProbabilities(predictions, i + 1)
\* equal probabilities that sum to 100.0 within the rounding of one decimal
Uniform(predictions) ==
    /\ \A i, j \in 1..Len(predictions) :
          predictions[i].probability = predictions[j].probability
    /\ Len(predictions) > 0 =>
          SumProbabilities(predictions, 1) \in 999..1001

\* ---------------------------------------------------------------- C1
\* C1 as stated: whenever (player, lastOpponent) is no key of the transition
\* model, the result is min(3, |knownPlayers| - 1) candidates with equal
\* probabilities that sum to 100 within rounding.
C1_AsStated ==
    \A c \in Calls :
        <<c.player, c.last>> \notin DOMAIN transition_model =>
            /\ Len(c.predictions) = Min(3, Len(all_players) - 1)
            /\ Uniform(c.predictions)
            /\ SumProbabilities(c.predictions, 1) \in 999..1001

\* C1 amended: whenever (player, lastOpponent) is no key of the transition model
\* and the position model holds no candidate other than the player at
\* currentRoundPosition + 1, the result is the first min(3, n) roster entries
\* other than the player (n their number), in roster order, with equal
\* probabilities that sum to 100 within rounding when the list is not empty.
C1_Fallback ==
    \A c \in Calls :
        (<<c.player, c.last>> \notin DOMAIN transition_model
            /\ CounterKeys(PositionItems(c)) \subseteq {c.player}) =>
            LET others == SelectSeq(all_players, LAMBDA p : p # c.player) IN
            /\ Opponents(c) = SubSeq(others, 1, Min(3, Len(others)))
            /\ Uniform(c.predictions)

\* a cold-start query of Player 1 answered from the roster
C1_Witness ==
    \E c \in Calls :
        /\ <<c.player, c.last>> \notin DOMAIN transition_model
        /\ CounterKeys(PositionItems(c)) \subseteq {c.player}
        /\ c.player = PlayerName(1)
        /\ Len(matches) > 0
        /\ Len(c.predictions) = 3

\* ---------------------------------------------------------------- C2
\* C2: no prediction request ends in the 500 response that an exception raised by
\* predict_next_opponent (the division by a zero total) produces.
C2_NeverRaises ==
    (pc = "serving" /\ response # NoResponse) => response.status # 500

\* a call whose top-3 list is empty, so that the total of the normalisation is 0
C2_Witness ==
    \E c \in Calls : c.predictions = <<>> /\ request.route = "predict"

\* ---------------------------------------------------------------- C3
\* the distinct candidates with a positive score, or those the fallback adds
Candidates(c) == IF Scored(c) = {} THEN Pool(c) ELSE Scored(c)

\* C3: the result has min(3, number of distinct candidates) entries, and is
\* empty only if the roster has at most one entry, or both lookups and the
\* fallback pool are empty.
C3_Length ==
    \A c \in Calls :
        /\ Len(c.predictions) = Min(3, Cardinality(Candidates(c)))
        /\ c.predictions = <<>> =>
              \/ Len(all_players) <= 1
              \/ (TransitionItems(c) = <<>> /\ PositionItems(c) = <<>> /\ Pool(c) = {})

\* a fallback over more than three candidates, cut to three
C3_Witness ==
    \E c \in Calls : Cardinality(Candidates(c)) > 3 /\ Len(c.predictions) = 3

\* ---------------------------------------------------------------- C4
\* the counts stored in a model
AllCounts(model) ==
    UNION {{model[k][i][2] : i \in 1..Len(model[k])} : k \in DOMAIN model}
\* the columns of the corpus, as <<table, column>> indices
Columns == UNION {{<<m, c>> : c \in 1..Len(matches[m])} : m \in 1..Len(matches)}
ColumnCells(mc) == matches[mc[1]][mc[2]].cells
ColumnName(mc) == matches[mc[1]][mc[2]].name
\* the adjacent round pairs of the corpus, as <<table, column, round>> indices
AdjacentPairs ==
    UNION {{<<mc[1], mc[2], i>> : i \in 1..(Len(ColumnCells(mc)) - 1)} : mc \in Columns}

\* C4 as stated: every count of both models is a non-negative integer and none
\* is greater than the number of match records.
C4_AsStated ==
    pc = "serving" =>
        \A n \in AllCounts(transition_model) \cup AllCounts(position_model) :
            n \in Nat /\ n <= Len(matches)

\* C4 amended: every count of both models is a positive integer, no count of the
\* position model is greater than the number of match records, and no count of
\* the transition model is greater than the number of adjacent round pairs of
\* the records.
C4_Counts ==
    pc = "serving" =>
        /\ \A n \in AllCounts(position_model) : n \in Nat /\ n >= 1 /\ n <= Len(matches)
        /\ \A n \in AllCounts(transition_model) :
              n \in Nat /\ n >= 1 /\ n <= Cardinality(AdjacentPairs)

\* two records that agree on a round, and a transition learned from one of them
C4_Witness ==
    /\ pc = "serving"
    /\ Len(matches) = 2
    /\ 2 \in AllCounts(position_model)
    /\ 1 \in AllCounts(transition_model)

\* ---------------------------------------------------------------- C5
\* C5: while serving, both models are exactly what start-up built from the
\* records (no key added, no count changed, whatever requests came before), and
\* every answer is the one the models of start-up give for its query.
C5_ModelsFrozen ==
    pc = "serving" =>
        LET built_transition == build_transition_model(matches)
            built_position == build_position_model(matches)
        IN  /\ transition_model = built_transition
            /\ position_model = built_position
            /\ \A c \in Calls :
                  c.predictions =
                      predict_next_opponent(c.player, c.idx, c.last, built_transition,
                                            built_position, all_players).predictions

\* a batch answered with two calls, one of them for keys the models do not hold
C5_Witness ==
    /\ request.route = "batch"
    /\ Cardinality(Calls) = 2
    /\ transition_model # EmptyModel
    /\ \E c \in Calls :
          /\ <<c.player, c.last>> \notin DOMAIN transition_model
          /\ <<c.player, c.idx + 1>> \notin DOMAIN position_model

\* ---------------------------------------------------------------- C6
\* C6: no key of the transition model has a mirror-match token as its opponent.
C6_NoMirrorContext ==
    pc = "serving" =>
        \A k \in DOMAIN transition_model : ~HasMirrorMarker(k[2])

\* a record where a mirror-match round is followed by a round against Player 2
C6_Witness ==
    /\ pc = "serving"
    /\ transition_model = build_transition_model(matches)
    /\ \E t \in AdjacentPairs :
          /\ ColumnCells(<<t[1], t[2]>>)[t[3]] = MirrorName(3)
          /\ ColumnCells(<<t[1], t[2]>>)[t[3] + 1] = PlayerName(2)

\* ---------------------------------------------------------------- C7
\* the adjacent pairs of player P's columns whose current opponent is R and
\* whose next opponent is Q or the mirror-match token of Q
PairsTo(P, R, q) ==
    {t \in AdjacentPairs :
        /\ ColumnName(<<t[1], t[2]>>) = P
        /\ ColumnCells(<<t[1], t[2]>>)[t[3]] = R
        /\ ColumnCells(<<t[1], t[2]>>)[t[3] + 1] \in {PlayerName(q), MirrorName(q)}}

\* C7: no candidate of the transition model carries the mirror marker, and for
\* every adjacent pair (R, mirror token of Q) of player P with R a plain
\* opponent, the count of Q under (P, R) is the number of P's pairs from R to Q
\* or to Q's mirror token.
C7_MirrorOutcome ==
    pc = "serving" =>
        /\ \A k \in DOMAIN transition_model : \A i \in 1..Len(transition_model[k]) :
              ~HasMirrorMarker(transition_model[k][i][1])
        /\ \A t \in AdjacentPairs : \A q \in 1..NumPlayers :
              LET P == ColumnName(<<t[1], t[2]>>)
                  R == ColumnCells(<<t[1], t[2]>>)[t[3]]
              IN  (/\ ColumnCells(<<t[1], t[2]>>)[t[3] + 1] = MirrorName(q)
                   /\ ~IsSentinel(R) /\ ~HasMirrorMarker(R)) =>
                      /\ <<P, R>> \in DOMAIN transition_model
                      /\ CounterGet(transition_model[<<P, R>>], PlayerName(q))
                            = Cardinality(PairsTo(P, R, q))

\* Player 1 met the mirror of Player 3 right after Player 2, and Player 3 is
\* counted once under (Player 1, Player 2)
C7_Witness ==
    /\ pc = "serving"
    /\ <<PlayerName(1), PlayerName(2)>> \in DOMAIN transition_model
    /\ CounterGet(transition_model[<<PlayerName(1), PlayerName(2)>>], PlayerName(3)) = 1
    /\ \E t \in PairsTo(PlayerName(1), PlayerName(2), 3) :
          ColumnCells(<<t[1], t[2]>>)[t[3] + 1] = MirrorName(3)

\* ---------------------------------------------------------------- C8
\* the history items that carry an opponent field (one that is not null)
HasOpponentField(item) == Get(item.opponent) # None
\* the history items whose opponent is present and not the empty string
HasOpponent(item) == Get(item.opponent) # None /\ Get(item.opponent) # EmptyStr

\* one result entry per kept item, in order, each the prediction for the item's
\* own round and opponent
ExpectedResults(player, kept) ==
    [k \in 1..Len(kept) |->
        LET round_str == GetOr(kept[k].round, DefaultRound) IN
        [round |-> round_str,
         opponent |-> kept[k].opponent,
         predictions |->
            predict_next_opponent(player, extract_round_number(round_str),
                                  kept[k].opponent, transition_model, position_model,
                                  all_players).predictions]]

\* C8 as stated: the batch result holds one entry per history item whose opponent
\* field is present, in input order, each the prediction for that item alone.
C8_AsStated ==
    (pc = "serving" /\ request.route = "batch" /\ Truthy(Get(request.player))) =>
        /\ response.status = 200
        /\ response.predictions_history =
              ExpectedResults(request.player, SelectSeq(request.history, HasOpponentField))

\* C8 amended: the batch result holds one entry per history item whose opponent
\* is present and not empty, in input order, each the prediction for that item
\* alone, and no entry for an item whose opponent is absent, null or empty.
C8_Batch ==
    (pc = "serving" /\ request.route = "batch" /\ Truthy(Get(request.player))) =>
        /\ response.status = 200
        /\ response.predictions_history =
              ExpectedResults(request.player, SelectSeq(request.history, HasOpponent))

\* a history whose first item has a null opponent and whose second has one,
\* answered with the one entry of the second
C8_Witness ==
    /\ pc = "serving" /\ request.route = "batch" /\ Truthy(Get(request.player))
    /\ Len(request.history) = 2
    /\ request.history[1].opponent = None
    /\ Truthy(request.history[2].opponent)
    /\ Len(response.predictions_history) = 1
    /\ response.predictions_history[1].opponent = request.history[2].opponent
    /\ transition_model # EmptyModel

\* ---------------------------------------------------------------- C9
\* the combined score the claim gives a candidate
ClaimedScore(c, o) ==
    TransitionWeight * CounterGet(TransitionItems(c), o) + CounterGet(PositionItems(c), o)
\* the order of first insertion: transition candidates, then position-only ones
InsertionOrder(c) ==
    LET t == TransitionItems(c)
        p == PositionItems(c)
        only == SelectSeq([i \in 1..Len(p) |-> p[i][1]],
                          LAMBDA o : CounterGet(t, o) = 0 /\ o # c.player)
    IN  [i \in 1..Len(t) |-> t[i][1]] \o only
\* the first index of o in seq, 0 when absent
IndexIn(seq, o) ==
    CHOOSE i \in 0..Len(seq) :
        \/ (i = 0 /\ \A j \in 1..Len(seq) : seq[j] # o)
        \/ (i > 0 /\ seq[i] = o /\ \A j \in 1..(i - 1) : seq[j] # o)

\* what C9 says of one call
C9_Order(c) ==
    LET out == Opponents(c) IN
    /\ \A i, j \in 1..Len(out) :
          i < j =>
              /\ ClaimedScore(c, out[i]) >= ClaimedScore(c, out[j])
              /\ ClaimedScore(c, out[i]) = ClaimedScore(c, out[j]) =>
                    IndexIn(InsertionOrder(c), out[i]) < IndexIn(InsertionOrder(c), out[j])
    /\ \A a, b \in Scored(c) :
          (/\ a # b
           /\ CounterGet(TransitionItems(c), a) = 1
           /\ CounterGet(TransitionItems(c), b) = 0
           /\ CounterGet(PositionItems(c), b) = 1
           /\ IndexIn(out, b) > 0) =>
              (IndexIn(out, a) > 0 /\ IndexIn(out, a) < IndexIn(out, b))

\* C9 as stated, for the calls the models answer: the candidates come in
\* non-increasing order of 2 x transition count + position count, equal scores
\* in insertion order (transition candidates, then position-only ones), and a
\* candidate with transition count 1 comes before a different candidate that
\* has only a position count of 1.
C9_AsStated == \A c \in Calls : Scored(c) # {} => C9_Order(c)

\* C9 restricted: it holds of every call whose transition counter does not hold
\* the querying player itself (the candidate C10 says is never returned)
C9_ExceptSelf ==
    \A c \in Calls :
        (Scored(c) # {} /\ c.player \notin CounterKeys(TransitionItems(c))) => C9_Order(c)

\* ---------------------------------------------------------------- C10
\* C10 as stated: no returned candidate is the querying player.
C10_AsStated ==
    \A c \in Calls : \A i \in 1..Len(c.predictions) : c.predictions[i].opponent # c.player

\* C10 restricted: it holds of every call whose transition counter does not
\* hold the player
C10_ExceptTransition ==
    \A c \in Calls :
        c.player \notin CounterKeys(TransitionItems(c)) =>
            \A i \in 1..Len(c.predictions) : c.predictions[i].opponent # c.player

====
